---- MODULE Spec2Model ----
(***************************************************************************)
(* Model of src/kaizen-effectiveness-analyzer.py: the                      *)
(* KaizenEffectivenessAnalyzer class (trend, convergence, ROI, pattern and *)
(* recommendation computations, report and chart rendering) and the        *)
(* polling loop of main().                                                 *)
(*                                                                         *)
(* Python floats are modelled as exact rationals [n, d] (d > 0, lowest     *)
(* terms); d = 0 stands for a non-finite float (NaN).  Python dicts are    *)
(* functions whose DOMAIN is the set of keys present.                      *)
(***************************************************************************)
EXTENDS Integers, Sequences, FiniteSets, TLC

VARIABLES
    analyzer,        \* the KaizenEffectivenessAnalyzer object's fields
    state_file,      \* contents of optimization_state.json, or Missing
    metrics_file,    \* contents of kaizen_metrics.json, or Missing
    hour,            \* datetime.now().hour
    call,            \* harness: the method invoked and its arguments
    ret,             \* harness: what the method returned
    cycle,           \* locals and result of the last generate_report()
    chart,           \* what the last plot_analysis() wrote to kaizen_analysis.png
    pc,              \* main(): position in the polling loop
    now,             \* time.time(), in seconds since startup
    last_plot_time,  \* main(): local last_plot_time
    renders,         \* main(): the plot_analysis() calls made so far
    stdout           \* main(): the last thing printed

vars == <<analyzer, state_file, metrics_file, hour, call, ret, cycle, chart,
          pc, now, last_plot_time, renders, stdout>>

(***************************************************************************)
(* Bounds of the model.                                                    *)
(***************************************************************************)
MaxLen == 4          \* longest improvement sequence handed to a method
MaxTenths == 2       \* improvement values 0/10 .. MaxTenths/10
MaxWhole == 2        \* improvement values 1 .. MaxWhole
MaxIter == 3         \* largest "iteration" in optimization_state.json
MaxCount == 1        \* largest successful_optimizations / failed_attempts
MaxOpts == 3         \* longest optimizations_applied log
MaxHist == 3         \* longest improvement_history in kaizen_metrics.json
MaxTime == 700       \* main(): the loop is followed up to this many seconds
MaxSlow == 1         \* main(): a step may take up to MaxSlow * 30 extra seconds

(***************************************************************************)
(* Exact rational arithmetic standing for Python float arithmetic.         *)
(***************************************************************************)
Abs(i) == IF i < 0 THEN -i ELSE i

RECURSIVE Gcd(_, _)
Gcd(a, b) == IF b = 0 THEN a ELSE Gcd(b, a % b)

R(n, d) ==
    LET g == Gcd(Abs(n), Abs(d))
        s == IF d < 0 THEN -1 ELSE 1
    IN  IF d = 0 THEN [n |-> 0, d |-> 0]
        ELSE [n |-> (s * n) \div g, d |-> (s * d) \div g]

NaN == [n |-> 0, d |-> 0]
IsFinite(a) == a.d # 0
Zero == R(0, 1)
One == R(1, 1)
RInt(i) == R(i, 1)
RAdd(a, b) == IF a.d = 0 \/ b.d = 0 THEN NaN ELSE R(a.n * b.d + b.n * a.d, a.d * b.d)
RSub(a, b) == IF a.d = 0 \/ b.d = 0 THEN NaN ELSE R(a.n * b.d - b.n * a.d, a.d * b.d)
RMul(a, b) == IF a.d = 0 \/ b.d = 0 THEN NaN ELSE R(a.n * b.n, a.d * b.d)
\* a / b for b # 0
RDiv(a, b) == IF a.d = 0 \/ b.d = 0 THEN NaN ELSE R(a.n * b.d, a.d * b.n)
\* Python's <, >: every comparison with NaN is False
RLt(a, b) == a.d # 0 /\ b.d # 0 /\ a.n * b.d < b.n * a.d
RGt(a, b) == RLt(b, a)
\* Python's max(a, b) and min(a, b): the first argument unless the second beats it
RMax(a, b) == IF RGt(b, a) THEN b ELSE a
RMin(a, b) == IF RLt(b, a) THEN b ELSE a
\* int(a): truncation toward zero
RTrunc(a) == IF a.n >= 0 THEN a.n \div a.d ELSE -((-a.n) \div a.d)

RECURSIVE RSum(_)
RSum(s) == IF s = <<>> THEN Zero ELSE RAdd(s[1], RSum(Tail(s)))

(***************************************************************************)
(* Dicts.                                                                  *)
(***************************************************************************)
\* d.get(k, default)
Get(d, k, default) == IF k \in DOMAIN d THEN d[k] ELSE default
Restrict(f, K) == [k \in K |-> f[k]]

\* a JSON file on disk: absent, or holding a document
Missing == [exists |-> FALSE]
File(doc) == [exists |-> TRUE, doc |-> doc]

(***************************************************************************)
(* __init__                                                                *)
(***************************************************************************)
window_size == 10

NewAnalyzer ==
    [window_size          |-> window_size,
     improvement_history  |-> <<>>,
     complexity_reductions |-> <<>>,
     time_per_iteration   |-> <<>>,
     success_rates        |-> <<>>]

(***************************************************************************)
(* load_metrics, load_state                                                *)
(***************************************************************************)
load_metrics(file) ==
    IF ~file.exists      \* FileNotFoundError
    THEN [improvement_history |-> <<>>, optimizations_applied |-> <<>>]
    ELSE file.doc

LoadStateDefaultOne(file) ==
    IF ~file.exists THEN [iteration |-> 1, total_improvement |-> Zero] ELSE file.doc

load_state(file) ==
    IF ~file.exists      \* FileNotFoundError
    THEN [iteration |-> 0, total_improvement |-> Zero]
    ELSE file.doc

(***************************************************************************)
(* analyze_trend: first-degree least squares against x = 0 .. n-1          *)
(***************************************************************************)
TREND_UP == R(1, 10)
TREND_DOWN == R(-1, 10)

\* np.polyfit(x, y, 1) for x = arange(len(y)): <<slope, intercept>>
Polyfit1(y) ==
    LET n   == Len(y)
        sx  == RSum([i \in 1..n |-> RInt(i - 1)])
        sxx == RSum([i \in 1..n |-> RInt((i - 1) * (i - 1))])
        sy  == RSum(y)
        sxy == RSum([i \in 1..n |-> RMul(RInt(i - 1), y[i])])
        den == RSub(RMul(RInt(n), sxx), RMul(sx, sx))
        num == RSub(RMul(RInt(n), sxy), RMul(sx, sy))
        slope == RDiv(num, den)
        icpt  == RDiv(RSub(sy, RMul(slope, sx)), RInt(n))
    IN  <<slope, icpt>>

\* np.polyval(coeffs, x) at x = i
Polyval1(coeffs, i) == RAdd(RMul(coeffs[1], RInt(i)), coeffs[2])

Sq(a) == RMul(a, a)

ClassifyTrendLe(slope) ==
    IF ~RLt(slope, TREND_UP) THEN "improving"
    ELSE IF ~RGt(slope, TREND_DOWN) THEN "degrading"
    ELSE "stable"

ClassifyTrend(slope) ==
    IF RGt(slope, TREND_UP) THEN "improving"
    ELSE IF RLt(slope, TREND_DOWN) THEN "degrading"
    ELSE "stable"

RSquared(ss_res, ss_tot) ==
    IF RGt(ss_tot, Zero) THEN RSub(One, RDiv(ss_res, ss_tot)) ELSE Zero

analyze_trend(values) ==
    IF Len(values) < 2
    THEN [slope |-> Zero, r_squared |-> Zero, trend |-> "insufficient_data"]
    ELSE
        LET n      == Len(values)
            coeffs == Polyfit1(values)
            mean   == RDiv(RSum(values), RInt(n))
            ss_res == RSum([i \in 1..n |-> Sq(RSub(values[i], Polyval1(coeffs, i - 1)))])
            ss_tot == RSum([i \in 1..n |-> Sq(RSub(values[i], mean))])
        IN  [slope     |-> coeffs[1],
             r_squared |-> RSquared(ss_res, ss_tot),
             trend     |-> ClassifyTrend(coeffs[1])]

(***************************************************************************)
(* calculate_roi                                                           *)
(***************************************************************************)
EfficiencyUnclamped(total_improvement, expected_improvement) ==
    RMul(RDiv(total_improvement, RMax(RInt(expected_improvement), One)), RInt(100))

Efficiency(total_improvement, expected_improvement) ==
    RMin(RInt(100),
         RMul(RDiv(total_improvement, RMax(RInt(expected_improvement), One)), RInt(100)))

calculate_roi(state, metrics) ==
    LET iteration         == Get(state, "iteration", 1)
        total_improvement == Get(state, "total_improvement", Zero)
        time_spent_hours  == R(iteration * 5, 60)
        expected_improvement == iteration * 5
    IN  [total_improvement         |-> total_improvement,
         improvement_per_hour      |-> RDiv(total_improvement, RMax(time_spent_hours, R(1, 10))),
         improvement_per_iteration |-> RDiv(total_improvement, RMax(RInt(iteration), One)),
         efficiency_score          |-> Efficiency(total_improvement, expected_improvement),
         time_invested_hours       |-> time_spent_hours]

(***************************************************************************)
(* predict_convergence                                                     *)
(*                                                                         *)
(* np.log is modelled in fixed point: LnMilli[k + 1] is                    *)
(* round(1000 * ln(k/10 + 0.001)), the transform of a difference of k      *)
(* tenths; improvement values are multiples of 1/10.                       *)
(***************************************************************************)
LnMilli ==
    <<-6908, -2293, -1604, -1201, -914, -691, -509, -355, -222, -104,
      1, 96, 183, 263, 337, 406, 471, 531, 588, 642,
      694, 742, 789, 833, 876, 917, 956, 994, 1030, 1065,
      1099, 1132, 1163, 1194, 1224, 1253, 1281, 1309, 1335, 1361,
      1387, 1411, 1435, 1459, 1482, 1504, 1526, 1548, 1569, 1589, 1610>>

\* round(1000 * ln(0.05)), the default threshold of predict_convergence
LnThresholdMilli == -2996

\* np.min(y): NaN as soon as one element is NaN
RECURSIVE NpMin(_)
NpMin(y) ==
    IF Len(y) = 1 THEN y[1]
    ELSE LET m == NpMin(Tail(y))
         IN  IF ~IsFinite(y[1]) \/ ~IsFinite(m) THEN NaN
             ELSE IF RLt(m, y[1]) THEN m ELSE y[1]

\* np.log(v + 0.001) for v a non-negative multiple of 1/10; NaN for NaN
Log001(v) ==
    IF ~IsFinite(v) THEN NaN
    ELSE R(LnMilli[RTrunc(RMul(v, RInt(10))) + 1], 1000)

\* np.polyfit(x, log_y, 1) inside the try block.  On non-finite input the
\* LAPACK least-squares driver either fails to converge (numpy raises
\* LinAlgError) or hands back NaN coefficients, depending on the build:
\* lapack chooses between the two.
TryPolyfit(log_y, lapack) ==
    IF \E i \in 1..Len(log_y) : ~IsFinite(log_y[i])
    THEN IF lapack = "raise"
         THEN [raised |-> TRUE]
         ELSE [raised |-> FALSE, coeffs |-> <<NaN, NaN>>]
    ELSE [raised |-> FALSE, coeffs |-> Polyfit1(log_y)]

None == [kind |-> "None"]
Some(k) == [kind |-> "int", n |-> k]
Raised(e) == [kind |-> "raise", exc |-> e]
PyMax(a, b) == IF b > a THEN b ELSE a

\* the body of the try block once the fit has been attempted
AfterFitNoExcept(fit, len) ==
    IF fit.raised THEN Raised("LinAlgError")
    ELSE IF RLt(fit.coeffs[1], Zero)
         THEN Some(PyMax(0, RTrunc(RDiv(RSub(R(LnThresholdMilli, 1000), fit.coeffs[2]),
                                        fit.coeffs[1])) - len))
         ELSE None

AfterFit(fit, len) ==
    IF fit.raised THEN None      \* except: pass, then return None
    ELSE IF RLt(fit.coeffs[1], Zero)
         THEN Some(PyMax(0, RTrunc(RDiv(RSub(R(LnThresholdMilli, 1000), fit.coeffs[2]),
                                        fit.coeffs[1])) - len))
         ELSE None

predict_convergence(improvements, lapack) ==
    IF Len(improvements) < 3 THEN None
    ELSE
        LET n     == Len(improvements)
            lo    == NpMin(improvements)
            log_y == [i \in 1..n |-> Log001(RSub(improvements[i], lo))]
        IN  AfterFit(TryPolyfit(log_y, lapack), n)

(***************************************************************************)
(* identify_patterns                                                       *)
(***************************************************************************)
\* floor(sqrt(v)) for a natural number v
RECURSIVE ISqrtIn(_, _, _)
ISqrtIn(v, lo, hi) ==
    IF lo = hi THEN lo
    ELSE LET mid == (lo + hi + 1) \div 2
         IN  IF mid * mid <= v THEN ISqrtIn(v, mid, hi) ELSE ISqrtIn(v, lo, mid - 1)

\* np.std(xs) (population standard deviation), in fixed point: hundredths
NpStd(xs) ==
    LET n    == Len(xs)
        mean == RDiv(RSum(xs), RInt(n))
        var  == RDiv(RSum([i \in 1..n |-> Sq(RSub(xs[i], mean))]), RInt(n))
        v    == (var.n * 10000) \div var.d
    IN  R(ISqrtIn(v, 0, 46340), 100)

\* position of pattern p in the insertion-ordered dict, 0 if absent
RECURSIVE IndexOf(_, _)
IndexOf(groups, p) ==
    IF groups = <<>> THEN 0
    ELSE IF groups[Len(groups)].pattern = p /\ IndexOf(SubSeq(groups, 1, Len(groups) - 1), p) = 0
         THEN Len(groups)
         ELSE IndexOf(SubSeq(groups, 1, Len(groups) - 1), p)

AddOptOverwrite(groups, opt) ==
    LET pattern     == Get(opt, "pattern", "unknown")
        improvement == Get(opt, "improvement", Zero)
        known  == IndexOf(groups, pattern) # 0
        gs     == IF known THEN groups
                  ELSE Append(groups, [pattern |-> pattern, count |-> 0,
                                       total_improvement |-> Zero,
                                       improvements |-> <<>>])
        i      == IndexOf(gs, pattern)
    IN  [gs EXCEPT ![i] = [pattern |-> pattern,
                           count |-> @.count + 1,
                           total_improvement |-> improvement,
                           improvements |-> Append(@.improvements, improvement)]]

\* one pass of the accumulation loop over optimizations_applied
AddOpt(groups, opt) ==
    LET pattern     == Get(opt, "pattern", "unknown")
        improvement == Get(opt, "improvement", Zero)
        known  == IndexOf(groups, pattern) # 0
        gs     == IF known THEN groups
                  ELSE Append(groups, [pattern |-> pattern, count |-> 0,
                                       total_improvement |-> Zero,
                                       improvements |-> <<>>])
        i      == IndexOf(gs, pattern)
    IN  [gs EXCEPT ![i] = [pattern |-> pattern,
                           count |-> @.count + 1,
                           total_improvement |-> RAdd(@.total_improvement, improvement),
                           improvements |-> Append(@.improvements, improvement)]]

RECURSIVE Accumulate(_)
Accumulate(opts) ==
    IF opts = <<>> THEN <<>>
    ELSE AddOpt(Accumulate(SubSeq(opts, 1, Len(opts) - 1)), opts[Len(opts)])

PatternStat(data) ==
    LET avg_improvement == RDiv(data.total_improvement, RInt(data.count))
        std_improvement == IF Len(data.improvements) > 1 THEN NpStd(data.improvements) ELSE Zero
    IN  [pattern         |-> data.pattern,
         count           |-> data.count,
         avg_improvement |-> avg_improvement,
         std_improvement |-> std_improvement,
         total_impact    |-> data.total_improvement,
         reliability     |-> RSub(One, RDiv(std_improvement, RMax(avg_improvement, R(1, 1000))))]

\* sorted(stats, key=total_impact, reverse=True): a stable descending sort.
\* InsertDesc puts e after every element whose key is >= e's key.
RECURSIVE InsertDescUnstable(_, _)
InsertDescUnstable(sorted, e) ==
    IF sorted = <<>> THEN <<e>>
    ELSE IF RLt(sorted[1].total_impact, e.total_impact) \/ sorted[1].total_impact = e.total_impact
         THEN <<e>> \o sorted
         ELSE <<sorted[1]>> \o InsertDescUnstable(Tail(sorted), e)

RECURSIVE InsertDesc(_, _)
InsertDesc(sorted, e) ==
    IF sorted = <<>> THEN <<e>>
    ELSE IF RLt(sorted[1].total_impact, e.total_impact)
         THEN <<e>> \o sorted
         ELSE <<sorted[1]>> \o InsertDesc(Tail(sorted), e)

RECURSIVE SortedDesc(_)
SortedDesc(stats) ==
    IF stats = <<>> THEN <<>>
    ELSE InsertDesc(SortedDesc(SubSeq(stats, 1, Len(stats) - 1)), stats[Len(stats)])

identify_patterns(metrics) ==
    LET patterns == Accumulate(Get(metrics, "optimizations_applied", <<>>))
        pattern_stats == [i \in 1..Len(patterns) |-> PatternStat(patterns[i])]
    IN  SortedDesc(pattern_stats)

(***************************************************************************)
(* generate_recommendations                                                *)
(***************************************************************************)
\* f"{a:.1f}", f"{a:.2f}", f"{a:.3f}": a rounded half-to-even to 1/scale
Fmt(a, scale) ==
    IF ~IsFinite(a) THEN NaN
    ELSE LET n == a.n * scale
             f == n \div a.d
             r == n - f * a.d
         IN  IF 2 * r < a.d THEN R(f, scale)
             ELSE IF 2 * r > a.d THEN R(f + 1, scale)
             ELSE IF f % 2 = 0 THEN R(f, scale) ELSE R(f + 1, scale)

StopLine == [text |-> "Diminishing returns detected. Consider stopping after next iteration."]
AdjustLine == [text |-> "Improvements plateauing. Try adjusting optimization parameters."]
LowEfficiencyLine == [text |-> "Low efficiency detected. Review failed optimization attempts."]
BestPatternLine(p) ==
    [text |-> "Most effective pattern", pattern |-> p.pattern,
     avg |-> Fmt(p.avg_improvement, 10)]
ConservativeLine == [text |-> "Success rate below 50%. Consider more conservative optimization targets."]
MorningLine == [text |-> "Morning hours - good time to review results and merge changes."]

TrendLinesNotImproving(trend) ==
    IF trend.trend # "improving" THEN <<StopLine>>
    ELSE IF trend.trend = "stable" THEN <<AdjustLine>>
    ELSE <<>>

\* the if/elif on trend["trend"]
TrendLines(trend) ==
    IF trend.trend = "degrading" THEN <<StopLine>>
    ELSE IF trend.trend = "stable" THEN <<AdjustLine>>
    ELSE <<>>

SuccessRateOfFailures(state) ==
    R(Get(state, "failed_attempts", 0),
      PyMax(Get(state, "successful_optimizations", 0) + Get(state, "failed_attempts", 0), 1))

success_rate(state) ==
    R(Get(state, "successful_optimizations", 0),
      PyMax(Get(state, "successful_optimizations", 0) + Get(state, "failed_attempts", 0), 1))

generate_recommendations(state, metrics, trend, current_hour) ==
    LET roi      == calculate_roi(state, metrics)
        patterns == identify_patterns(metrics)
    IN  TrendLines(trend)
        \o (IF RLt(roi.efficiency_score, RInt(50)) THEN <<LowEfficiencyLine>> ELSE <<>>)
        \o (IF patterns # <<>> THEN <<BestPatternLine(patterns[1])>> ELSE <<>>)
        \o (IF RLt(success_rate(state), R(1, 2)) THEN <<ConservativeLine>> ELSE <<>>)
        \o (IF 6 <= current_hour /\ current_hour <= 8 THEN <<MorningLine>> ELSE <<>>)

(***************************************************************************)
(* generate_report                                                         *)
(***************************************************************************)
\* [h["improvement"] for h in metrics.get("improvement_history", [])]
\* raises KeyError when an entry has no "improvement" key
HistoryKeyError(metrics) ==
    LET history == Get(metrics, "improvement_history", <<>>)
    IN  \E i \in 1..Len(history) : "improvement" \notin DOMAIN history[i]

Improvements(metrics) ==
    LET history == Get(metrics, "improvement_history", <<>>)
    IN  [i \in 1..Len(history) |-> history[i].improvement]

\* str.upper() on the trend labels
Upper(t) ==
    CASE t = "improving" -> "IMPROVING"
      [] t = "degrading" -> "DEGRADING"
      [] t = "stable" -> "STABLE"
      [] t = "insufficient_data" -> "INSUFFICIENT_DATA"
      [] t = "no_data" -> "NO_DATA"
      [] t = "unknown" -> "UNKNOWN"

\* Python truthiness of an Optional[int]: None and 0 are falsy
Truthy(v) == v.kind = "int" /\ v.n # 0

\* seq[-k:] and seq[:k]
LastN(s, k) == IF Len(s) <= k THEN s ELSE SubSeq(s, Len(s) - k + 1, Len(s))
FirstN(s, k) == IF Len(s) <= k THEN s ELSE SubSeq(s, 1, k)

\* one line of the RECENT IMPROVEMENTS section; str * n is empty for n <= 0
RecentLine(improvements, recent, i) ==
    LET imp == recent[i]
    IN  [iteration |-> Len(improvements) - Len(recent) + i,
         filled    |-> PyMax(RTrunc(imp), 0),
         empty     |-> PyMax(20 - RTrunc(imp), 0),
         value     |-> Fmt(imp, 10)]

TrendOfAlways(improvements) == analyze_trend(improvements)

\* analyze_trend(improvements) if improvements else {"trend": "no_data"}
TrendOf(improvements) ==
    IF improvements # <<>> THEN analyze_trend(improvements) ELSE [trend |-> "no_data"]

generate_report(sfile, mfile, current_hour, lapack) ==
    LET state        == load_state(sfile)
        metrics      == load_metrics(mfile)
    IN  IF HistoryKeyError(metrics)
        THEN [raised |-> TRUE, exc |-> "KeyError", state |-> state, metrics |-> metrics]
        ELSE
        LET improvements == Improvements(metrics)
            trend    == TrendOf(improvements)
            roi      == calculate_roi(state, metrics)
            recommendations == generate_recommendations(state, metrics, trend, current_hour)
            iterations_to_convergence ==
                IF improvements # <<>> THEN predict_convergence(improvements, lapack) ELSE None
            patterns == FirstN(identify_patterns(metrics), 5)
            recent_improvements == IF improvements # <<>> THEN LastN(improvements, 5) ELSE <<>>
        IN  [raised  |-> FALSE,
             state   |-> state,
             metrics |-> metrics,
             improvements |-> improvements,
             trend   |-> trend,
             roi     |-> roi,
             iterations_to_convergence |-> iterations_to_convergence,
             report  |->
               [total_improvement         |-> Fmt(roi.total_improvement, 100),
                improvement_per_hour      |-> Fmt(roi.improvement_per_hour, 100),
                improvement_per_iteration |-> Fmt(roi.improvement_per_iteration, 100),
                efficiency_score          |-> Fmt(roi.efficiency_score, 10),
                time_invested_hours       |-> Fmt(roi.time_invested_hours, 10),
                current_trend   |-> Upper(Get(trend, "trend", "unknown")),
                trend_slope     |-> Fmt(Get(trend, "slope", Zero), 1000),
                r_squared       |-> Fmt(Get(trend, "r_squared", Zero), 1000),
                convergence_eta |-> IF Truthy(iterations_to_convergence)
                                    THEN [iterations |-> iterations_to_convergence.n]
                                    ELSE [unknown |-> TRUE],
                patterns        |-> [i \in 1..Len(patterns) |->
                                       [rank    |-> i,
                                        pattern |-> patterns[i].pattern,
                                        avg     |-> Fmt(patterns[i].avg_improvement, 10),
                                        count   |-> patterns[i].count]],
                recommendations |-> recommendations,
                recent          |-> [i \in 1..Len(recent_improvements) |->
                                       RecentLine(improvements, recent_improvements, i)]]]

(***************************************************************************)
(* plot_analysis                                                           *)
(***************************************************************************)
\* np.cumsum
Cumsum(s) == [i \in 1..Len(s) |-> RSum(SubSeq(s, 1, i))]

NoChart == [written |-> FALSE]

plot_analysis(sfile, mfile) ==
    LET state        == load_state(sfile)
        metrics      == load_metrics(mfile)
    IN  IF HistoryKeyError(metrics) THEN [raised |-> TRUE, exc |-> "KeyError"]
        ELSE IF Improvements(metrics) = <<>> THEN [raised |-> FALSE, chart |-> NoChart]
        ELSE
        LET improvements == Improvements(metrics)
            n        == Len(improvements)
            patterns == FirstN(identify_patterns(metrics), 5)
        IN  [raised |-> FALSE,
             chart  |->
               [written     |-> TRUE,
                improvement |-> improvements,
                trend_line  |-> IF n > 1 THEN <<Polyfit1(improvements)[1]>> ELSE <<>>,
                cumulative  |-> Cumsum(improvements),
                patterns    |-> [i \in 1..Len(patterns) |->
                                   [pattern      |-> patterns[i].pattern,
                                    total_impact |-> patterns[i].total_impact]],
                efficiency  |-> IF n > 2
                                THEN [i \in 1..n |->
                                        RMin(RInt(100),
                                             RMul(RDiv(RSum(SubSeq(improvements, 1, i)),
                                                       RInt(i * 5)), RInt(100)))]
                                ELSE <<>>]]

(***************************************************************************)
(* Input domains.                                                          *)
(***************************************************************************)
SeqsUpTo(S, n) == UNION {[1..k -> S] : k \in 0..n}

\* improvement percentages: multiples of 1/10
ImpValues == {R(k, 10) : k \in 0..MaxTenths} \cup {RInt(k) : k \in 1..MaxWhole}

\* total_improvement values: negative, zero, below / at / above expectation
Totals == {RInt(-10), RInt(-1), Zero, RInt(1), R(5, 2), RInt(5), RInt(10), RInt(1000)}

StateKeys == {"iteration", "total_improvement", "successful_optimizations", "failed_attempts"}

\* optimization_state.json documents; any key may be absent
StateDocsOf(iters, totals, counts) ==
    {Restrict(f, K) :
        f \in [iteration : iters, total_improvement : totals,
               successful_optimizations : counts, failed_attempts : counts],
        K \in SUBSET StateKeys}

StateDocs == StateDocsOf(0..MaxIter, Totals, 0..MaxCount)

PatternNames == {"A", "B", "unknown"}
OptImps == {RInt(5), RInt(10), RInt(20)}

\* entries of optimizations_applied; either key may be absent
OptEntries ==
    {Restrict(f, K) :
        f \in [pattern : PatternNames, improvement : OptImps],
        K \in SUBSET {"pattern", "improvement"}}

OptLogs == SeqsUpTo(OptEntries, MaxOpts)

(***************************************************************************)
(* Direct calls of the analyzer's methods: the arguments are drawn in the  *)
(* initial state, the action performs the call.                            *)
(***************************************************************************)
NoCycle == [ran |-> FALSE]

Pending == [returned |-> FALSE]
Returned(v) == [returned |-> TRUE, value |-> v]

Idle ==
    /\ analyzer = NewAnalyzer
    /\ state_file = Missing
    /\ metrics_file = Missing
    /\ cycle = NoCycle
    /\ chart = NoChart
    /\ pc = "idle"
    /\ now = 0
    /\ last_plot_time = 0
    /\ renders = <<>>
    /\ stdout = "nothing"

TrendLabels == {"improving", "degrading", "stable", "insufficient_data", "no_data", "unknown"}

InitCall ==
    /\ Idle
    /\ ret = Pending
    /\ \/ /\ hour = 0
          /\ \E v \in SeqsUpTo(ImpValues, MaxLen) :
                call = [fn |-> "analyze_trend", values |-> v]
       \/ /\ hour = 0
          /\ \E v \in SeqsUpTo(ImpValues \cup {NaN}, MaxLen) :
                call = [fn |-> "predict_convergence", improvements |-> v]
       \/ /\ hour = 0
          /\ \E s \in StateDocs, m \in SeqsUpTo(OptEntries, 1) :
                call = [fn |-> "calculate_roi", state |-> s,
                        metrics |-> [optimizations_applied |-> m]]
       \/ /\ hour = 0
          /\ \E log \in OptLogs, K \in SUBSET {"optimizations_applied"} :
                call = [fn |-> "identify_patterns",
                        metrics |-> Restrict([optimizations_applied |-> log], K)]
       \/ /\ hour \in 0..23
          /\ \E s \in StateDocsOf(0..1, {Zero, R(5, 2), RInt(10)}, 0..MaxCount),
                log \in {<<>>, <<[pattern |-> "A", improvement |-> RInt(10)]>>,
                         <<[improvement |-> RInt(5)], [pattern |-> "B", improvement |-> RInt(5)]>>},
                t \in TrendLabels :
                call = [fn |-> "generate_recommendations", state |-> s,
                        metrics |-> [optimizations_applied |-> log],
                        trend |-> [trend |-> t]]

CallFrame == UNCHANGED <<analyzer, state_file, metrics_file, hour, call, cycle, chart,
                         pc, now, last_plot_time, renders, stdout>>

CallAnalyzeTrend ==
    /\ call.fn = "analyze_trend" /\ ~ret.returned
    /\ ret' = Returned(analyze_trend(call.values))
    /\ CallFrame

CallPredictConvergence ==
    /\ call.fn = "predict_convergence" /\ ~ret.returned
    /\ \E lapack \in {"raise", "nan"} :
          ret' = Returned(predict_convergence(call.improvements, lapack))
    /\ CallFrame

CallCalculateRoi ==
    /\ call.fn = "calculate_roi" /\ ~ret.returned
    /\ ret' = Returned(calculate_roi(call.state, call.metrics))
    /\ CallFrame

CallIdentifyPatterns ==
    /\ call.fn = "identify_patterns" /\ ~ret.returned
    /\ ret' = Returned(identify_patterns(call.metrics))
    /\ CallFrame

CallGenerateRecommendations ==
    /\ call.fn = "generate_recommendations" /\ ~ret.returned
    /\ ret' = Returned(generate_recommendations(call.state, call.metrics, call.trend, hour))
    /\ CallFrame

NextCall ==
    \/ CallAnalyzeTrend
    \/ CallPredictConvergence
    \/ CallCalculateRoi
    \/ CallIdentifyPatterns
    \/ CallGenerateRecommendations

SpecCall == InitCall /\ [][NextCall]_vars

(***************************************************************************)
(* Properties of the direct calls (checked under SpecCall).                *)
(***************************************************************************)
RLe(a, b) == a.d # 0 /\ b.d # 0 /\ a.n * b.d <= b.n * a.d
Did(fn) == call.fn = fn /\ ret.returned

\* C1: for every optimization state with iteration >= 0, whatever the
\* total_improvement, the efficiency_score returned by calculate_roi is at
\* most 100; iteration = 1 with total_improvement = 1000 gives exactly 100.
C1_EfficiencyAtMost100 ==
    Did("calculate_roi") =>
        /\ RLe(ret.value.efficiency_score, RInt(100))
        /\ (/\ Get(call.state, "iteration", 1) = 1
            /\ Get(call.state, "total_improvement", Zero) = RInt(1000))
           => ret.value.efficiency_score = RInt(100)

C1_Witness ==
    /\ Did("calculate_roi")
    /\ "iteration" \in DOMAIN call.state /\ call.state.iteration = 1
    /\ "total_improvement" \in DOMAIN call.state
    /\ call.state.total_improvement = RInt(1000)
    /\ ret.value.efficiency_score = RInt(100)

\* C2: for every optimization state with iteration >= 0 and any
\* total_improvement, the efficiency_score returned by calculate_roi lies in
\* 0 .. 100 inclusive.
C2_EfficiencyInRange ==
    Did("calculate_roi") =>
        /\ RLe(Zero, ret.value.efficiency_score)
        /\ RLe(ret.value.efficiency_score, RInt(100))

\* number of occurrences of line in a list of recommendation lines
RECURSIVE CountLine(_, _)
CountLine(lines, line) ==
    IF lines = <<>> THEN 0
    ELSE (IF lines[1] = line THEN 1 ELSE 0) + CountLine(Tail(lines), line)

\* C3: generate_recommendations called with trend "degrading" returns a list
\* holding exactly one stop-suggestion line, whatever the state, the metrics
\* log and the clock hour; for any other trend it holds none.
C3_StopLineIffDegrading ==
    Did("generate_recommendations") =>
        CountLine(ret.value, StopLine) = (IF call.trend.trend = "degrading" THEN 1 ELSE 0)

C3_Witness ==
    /\ Did("generate_recommendations")
    /\ call.trend.trend = "degrading"
    /\ Len(ret.value) >= 4
    /\ CountLine(ret.value, StopLine) = 1

\* the place of a recommendation line in the fixed order of the rules
RuleOf(line) ==
    CASE line.text = "Diminishing returns detected. Consider stopping after next iteration." -> 1
      [] line.text = "Improvements plateauing. Try adjusting optimization parameters." -> 2
      [] line.text = "Low efficiency detected. Review failed optimization attempts." -> 3
      [] line.text = "Most effective pattern" -> 4
      [] line.text = "Success rate below 50%. Consider more conservative optimization targets." -> 5
      [] line.text = "Morning hours - good time to review results and merge changes." -> 6
      [] OTHER -> 0

RulesIn(lines) == {RuleOf(lines[i]) : i \in 1..Len(lines)}

\* C12: the list returned by generate_recommendations is a subsequence of
\* the fixed order [stop, parameter adjustment, low efficiency, most
\* effective pattern, conservative targets, morning reminder] with each line
\* at most once; stop and parameter adjustment never both appear; the
\* pattern line appears iff a pattern exists; the conservative line iff
\* successes / max(successes + failures, 1) < 0.5; the morning line iff the
\* clock hour is in 6..8.
C12_RecommendationOrder ==
    Did("generate_recommendations") =>
        LET lines     == ret.value
            successes == Get(call.state, "successful_optimizations", 0)
            failures  == Get(call.state, "failed_attempts", 0)
            attempts  == IF successes + failures > 1 THEN successes + failures ELSE 1
        IN  /\ \A i \in 1..Len(lines) : RuleOf(lines[i]) \in 1..6
            /\ \A i, j \in 1..Len(lines) : i < j => RuleOf(lines[i]) < RuleOf(lines[j])
            /\ ~({1, 2} \subseteq RulesIn(lines))
            /\ 4 \in RulesIn(lines) <=> Len(call.metrics.optimizations_applied) > 0
            /\ 5 \in RulesIn(lines) <=> 2 * successes < attempts
            /\ 6 \in RulesIn(lines) <=> hour \in 6..8

\* the longest list: five lines, success rate exactly 0 of 1, hour 8
C12_Witness ==
    /\ Did("generate_recommendations")
    /\ RulesIn(ret.value) = {2, 3, 4, 5, 6}
    /\ Get(call.state, "failed_attempts", 0) = 1
    /\ hour = 8

\* success rate exactly one half: no conservative-targets line
C12_WitnessHalf ==
    /\ Did("generate_recommendations")
    /\ Get(call.state, "successful_optimizations", 0) = 1
    /\ Get(call.state, "failed_attempts", 0) = 1
    /\ 5 \notin RulesIn(ret.value)

\* a is the least-squares slope of y against x = 0 .. n-1: with the
\* intercept b that zeroes the sum of residuals, the residuals are
\* orthogonal to x (the normal equations)
IsLeastSquaresSlope(a, y) ==
    LET n  == Len(y)
        sx == RSum([i \in 1..n |-> RInt(i - 1)])
        b  == RDiv(RSub(RSum(y), RMul(a, sx)), RInt(n))
    IN  RSum([i \in 1..n |->
              RMul(RInt(i - 1), RSub(y[i], RAdd(RMul(a, RInt(i - 1)), b)))]) = Zero

OptsOf(metrics) == Get(metrics, "optimizations_applied", <<>>)
NameOf(opt) == Get(opt, "pattern", "unknown")
ImpOf(opt) == Get(opt, "improvement", Zero)
WithName(opts, p) == {i \in 1..Len(opts) : NameOf(opts[i]) = p}

RECURSIVE SumOver(_, _)
SumOver(opts, I) ==
    IF I = {} THEN Zero
    ELSE LET i == CHOOSE j \in I : TRUE
         IN  RAdd(ImpOf(opts[i]), SumOver(opts, I \ {i}))

RECURSIVE SumCounts(_)
SumCounts(stats) == IF stats = <<>> THEN 0 ELSE stats[1].count + SumCounts(Tail(stats))

SpecExampleLog ==
    <<[pattern |-> "A", improvement |-> RInt(10)],
      [pattern |-> "A", improvement |-> RInt(20)],
      [pattern |-> "B", improvement |-> RInt(5)]>>

\* C5: identify_patterns returns exactly one PatternStat per distinct pattern
\* name of optimizations_applied (entries without a pattern key count as
\* "unknown"); its count is the number of entries of that name, its
\* total_impact the sum of their improvements, its avg_improvement
\* total_impact / count; the counts add up to the number of entries.
\* [A:10, A:20, B:5] gives A: 2, 15, 30 and B: 1, 5, 5.
C5_PatternStats ==
    Did("identify_patterns") =>
        LET opts  == OptsOf(call.metrics)
            stats == ret.value
        IN  /\ {stats[k].pattern : k \in 1..Len(stats)} = {NameOf(opts[i]) : i \in 1..Len(opts)}
            /\ \A j, k \in 1..Len(stats) : stats[j].pattern = stats[k].pattern => j = k
            /\ \A k \in 1..Len(stats) :
                  /\ stats[k].count = Cardinality(WithName(opts, stats[k].pattern))
                  /\ stats[k].total_impact = SumOver(opts, WithName(opts, stats[k].pattern))
                  /\ RMul(stats[k].avg_improvement, RInt(stats[k].count)) = stats[k].total_impact
            /\ SumCounts(stats) = Len(opts)
            /\ opts = SpecExampleLog =>
                  /\ Len(stats) = 2
                  /\ stats[1].pattern = "A" /\ stats[1].count = 2
                  /\ stats[1].avg_improvement = RInt(15) /\ stats[1].total_impact = RInt(30)
                  /\ stats[2].pattern = "B" /\ stats[2].count = 1
                  /\ stats[2].avg_improvement = RInt(5) /\ stats[2].total_impact = RInt(5)

C5_Witness ==
    /\ Did("identify_patterns")
    /\ Len(OptsOf(call.metrics)) = 3
    /\ \E i \in 1..3 : "pattern" \notin DOMAIN OptsOf(call.metrics)[i]
    /\ \E i \in 1..3 : NameOf(OptsOf(call.metrics)[i]) = "unknown"
                       /\ "pattern" \in DOMAIN OptsOf(call.metrics)[i]
    /\ Len(ret.value) = 2
    /\ \E k \in 1..2 : /\ ret.value[k].pattern = "unknown" /\ ret.value[k].count = 2
                       /\ ret.value[k].avg_improvement = R(15, 2)

\* index of the first entry of opts whose pattern name is p
FirstSeen(opts, p) == CHOOSE i \in WithName(opts, p) : \A j \in WithName(opts, p) : i <= j

\* C6: the sequence returned by identify_patterns is in descending order of
\* total_impact, and patterns of equal total_impact come in the order in
\* which their names first occur in optimizations_applied.
C6_SortedStable ==
    Did("identify_patterns") =>
        LET opts  == OptsOf(call.metrics)
            stats == ret.value
        IN  \A k \in 1..(Len(stats) - 1) :
              /\ RLe(stats[k + 1].total_impact, stats[k].total_impact)
              /\ stats[k].total_impact = stats[k + 1].total_impact =>
                    FirstSeen(opts, stats[k].pattern) < FirstSeen(opts, stats[k + 1].pattern)

C6_Witness ==
    /\ Did("identify_patterns")
    /\ Len(ret.value) = 3
    /\ ret.value[2].total_impact = ret.value[3].total_impact
    /\ RLt(ret.value[2].total_impact, ret.value[1].total_impact)
    /\ NameOf(OptsOf(call.metrics)[1]) = ret.value[2].pattern

\* the log transform predict_convergence fits
LogY(improvements) ==
    [i \in 1..Len(improvements) |-> Log001(RSub(improvements[i], NpMin(improvements)))]

\* C7: predict_convergence never raises and returns either None or a
\* non-negative integer: None for fewer than 3 points, and also when the
\* log transform or the fit fails or the fitted slope is not negative.
C7_PredictionOrNone ==
    Did("predict_convergence") =>
        LET v == call.improvements
            r == ret.value
        IN  /\ r.kind \in {"None", "int"}
            /\ r.kind = "int" => r.n \in Nat
            /\ Len(v) < 3 => r = None
            /\ (\E i \in 1..Len(v) : ~IsFinite(v[i])) => r = None
            /\ (Len(v) >= 3 /\ (\A i \in 1..Len(v) : IsFinite(v[i]))
                /\ ~RLt(Polyfit1(LogY(v))[1], Zero)) => r = None

C7_Witness ==
    /\ Did("predict_convergence")
    /\ Len(call.improvements) >= 3
    /\ \E i \in 1..Len(call.improvements) : ~IsFinite(call.improvements[i])
    /\ ret.value = None

C7_WitnessPrediction ==
    /\ Did("predict_convergence")
    /\ ret.value.kind = "int"
    /\ ret.value.n > 0

(***************************************************************************)
(* Report cycles against the two input files: generate_report() and        *)
(* plot_analysis() read whatever is on disk when they run; the files       *)
(* belong to the optimizer, which may remove them between two cycles.      *)
(***************************************************************************)
\* entries of improvement_history; the empty dict has no "improvement" key
HistEntries ==
    {[improvement |-> v] : v \in {Zero, RInt(2), RInt(3)}}
        \cup {Restrict([improvement |-> Zero], {})}

MetricsKeys == {"improvement_history", "optimizations_applied"}

\* kaizen_metrics.json documents; either key may be absent
MetricsDocsOf(histories, logs) ==
    {Restrict(f, K) :
        f \in [improvement_history : histories, optimizations_applied : logs],
        K \in SUBSET MetricsKeys}

InitCycle ==
    /\ analyzer = NewAnalyzer
    /\ call = [fn |-> "generate_report"]
    /\ ret = Pending
    /\ cycle = NoCycle
    /\ chart = NoChart
    /\ pc = "idle"
    /\ now = 0
    /\ last_plot_time = 0
    /\ renders = <<>>
    /\ stdout = "nothing"
    /\ hour \in {7, 12}
    /\ \/ /\ state_file \in {Missing}
                \cup {File(d) : d \in StateDocsOf({0, 2}, {Zero, RInt(-1), RInt(10)}, {MaxCount})}
          /\ metrics_file \in {Missing}
                \cup {File(d) : d \in MetricsDocsOf({<<>>}, SeqsUpTo(OptEntries, 1))}
       \/ /\ state_file \in {Missing, File([iteration |-> 2, total_improvement |-> RInt(3),
                                            successful_optimizations |-> 2])}
          /\ metrics_file \in
                {File(d) : d \in MetricsDocsOf(SeqsUpTo(HistEntries, MaxHist),
                                               {<<>>, <<[pattern |-> "A", improvement |-> RInt(10)]>>})}

GenerateReportRemembering ==
    /\ pc = "idle"
    /\ \E lapack \in {"raise", "nan"} :
          cycle' = [ran    |-> TRUE,
                    sfile  |-> state_file,
                    mfile  |-> metrics_file,
                    hour   |-> hour,
                    at     |-> now,
                    result |-> generate_report(state_file, metrics_file, hour, lapack)]
    /\ analyzer' = [analyzer EXCEPT !.success_rates =
                      LastN(Append(@, success_rate(load_state(state_file))), window_size)]
    /\ UNCHANGED <<state_file, metrics_file, hour, call, ret, chart,
                   pc, now, last_plot_time, renders, stdout>>

GenerateReport ==
    /\ pc = "idle"
    /\ \E lapack \in {"raise", "nan"} :
          cycle' = [ran    |-> TRUE,
                    sfile  |-> state_file,
                    mfile  |-> metrics_file,
                    hour   |-> hour,
                    at     |-> now,
                    result |-> generate_report(state_file, metrics_file, hour, lapack)]
    /\ UNCHANGED <<analyzer, state_file, metrics_file, hour, call, ret, chart,
                   pc, now, last_plot_time, renders, stdout>>

\* savefig() replaces kaizen_analysis.png; an early return or an exception
\* leaves the file as it was
Saved(old, plotted) ==
    IF ~plotted.raised /\ plotted.chart.written THEN plotted.chart ELSE old

PlotAnalysis ==
    /\ pc = "idle"
    /\ chart' = Saved(chart, plot_analysis(state_file, metrics_file))
    /\ UNCHANGED <<analyzer, state_file, metrics_file, hour, call, ret, cycle,
                   pc, now, last_plot_time, renders, stdout>>

DeleteStateFile ==
    /\ pc = "idle"
    /\ state_file.exists
    /\ state_file' = Missing
    /\ UNCHANGED <<analyzer, metrics_file, hour, call, ret, cycle, chart,
                   pc, now, last_plot_time, renders, stdout>>

DeleteMetricsFile ==
    /\ pc = "idle"
    /\ metrics_file.exists
    /\ metrics_file' = Missing
    /\ UNCHANGED <<analyzer, state_file, hour, call, ret, cycle, chart,
                   pc, now, last_plot_time, renders, stdout>>

NextCycle ==
    \/ GenerateReport
    \/ PlotAnalysis
    \/ DeleteStateFile
    \/ DeleteMetricsFile

SpecCycle == InitCycle /\ [][NextCycle]_vars

(***************************************************************************)
(* Properties of the report cycle (checked under SpecCycle).               *)
(***************************************************************************)
\* the improvement history the cycle found on disk was empty
ReadEmptyHistory ==
    \/ ~cycle.mfile.exists
    \/ "improvement_history" \notin DOMAIN cycle.mfile.doc
    \/ cycle.mfile.doc.improvement_history = <<>>

\* C8: with an empty improvement history generate_report does not raise and
\* its report has trend "no_data" (never "insufficient_data": analyze_trend
\* and predict_convergence are not called) and no entry in the recent
\* improvements section, whatever the optimization state and the
\* optimizations_applied log.
C8_EmptyHistoryReport ==
    (cycle.ran /\ ReadEmptyHistory) =>
        /\ ~cycle.result.raised
        /\ cycle.result.trend = [trend |-> "no_data"]
        /\ cycle.result.report.current_trend = "NO_DATA"
        /\ cycle.result.iterations_to_convergence = None
        /\ cycle.result.report.recent = <<>>

C8_Witness ==
    /\ cycle.ran /\ ReadEmptyHistory
    /\ cycle.sfile.exists /\ cycle.mfile.exists
    /\ "total_improvement" \in DOMAIN cycle.sfile.doc
    /\ RLt(cycle.sfile.doc.total_improvement, Zero)
    /\ "optimizations_applied" \in DOMAIN cycle.mfile.doc
    /\ cycle.mfile.doc.optimizations_applied # <<>>
    /\ cycle.result.report.current_trend = "NO_DATA"
    /\ cycle.result.report.patterns # <<>>

ZeroRoi ==
    [total_improvement         |-> Zero,
     improvement_per_hour      |-> Zero,
     improvement_per_iteration |-> Zero,
     efficiency_score          |-> Zero,
     time_invested_hours       |-> Zero]

\* C9: a missing input file is not an error: a missing state file loads as
\* iteration 0, total_improvement 0, with successful_optimizations and
\* failed_attempts read as 0; a missing metrics file loads as empty
\* improvement_history and optimizations_applied; with both missing
\* calculate_roi returns 0 in every field and the report cycle completes.
C9_MissingFilesDefault ==
    cycle.ran =>
        /\ ~cycle.sfile.exists =>
              /\ cycle.result.state = [iteration |-> 0, total_improvement |-> Zero]
              /\ Get(cycle.result.state, "successful_optimizations", 0) = 0
              /\ Get(cycle.result.state, "failed_attempts", 0) = 0
              /\ ~cycle.result.raised =>
                    /\ cycle.result.roi = ZeroRoi
                    /\ CountLine(cycle.result.report.recommendations, ConservativeLine) = 1
        /\ ~cycle.mfile.exists =>
              /\ cycle.result.metrics =
                    [improvement_history |-> <<>>, optimizations_applied |-> <<>>]
              /\ ~cycle.result.raised
        /\ (~cycle.sfile.exists /\ ~cycle.mfile.exists) =>
              /\ ~cycle.result.raised
              /\ calculate_roi(cycle.result.state, cycle.result.metrics) = ZeroRoi
              /\ cycle.result.report.efficiency_score = Zero
              /\ cycle.result.report.patterns = <<>>
              /\ cycle.result.report.recent = <<>>

C9_Witness ==
    /\ cycle.ran
    /\ ~cycle.sfile.exists /\ ~cycle.mfile.exists
    /\ ~cycle.result.raised
    /\ cycle.result.roi = ZeroRoi

EmptyMetrics == [improvement_history |-> <<>>, optimizations_applied |-> <<>>]

\* C13: the analyzer keeps no state from one cycle to the next:
\* generate_report and plot_analysis leave the analyzer's fields as
\* constructed (four empty buffers, window_size unchanged) and never write
\* the two input files; the trend, ROI and pattern stats of a cycle depend
\* only on the documents read in that cycle, and the ROI only on the
\* optimization state, not on the metrics log.
C13_NoCrossCycleState ==
    /\ [](/\ analyzer.window_size = 10
          /\ analyzer.improvement_history = <<>>
          /\ analyzer.complexity_reductions = <<>>
          /\ analyzer.time_per_iteration = <<>>
          /\ analyzer.success_rates = <<>>
          /\ (cycle.ran /\ ~cycle.result.raised) =>
                \* ROI: the same under any other metrics log
                /\ cycle.result.roi = calculate_roi(load_state(cycle.sfile), EmptyMetrics)
                /\ cycle.result.roi =
                      generate_report(cycle.sfile, Missing, 23 - cycle.hour, "raise").roi
                \* trend and pattern stats: the same under any other state
                \* document and clock hour
                /\ \A other \in {generate_report(Missing, cycle.mfile, 23 - cycle.hour, "raise")} :
                      /\ other.trend = cycle.result.trend
                      /\ other.report.patterns = cycle.result.report.patterns)
    \* a report or a chart render changes neither file
    /\ [][(cycle' # cycle \/ chart' # chart) =>
              /\ state_file' = state_file
              /\ metrics_file' = metrics_file
              /\ analyzer' = analyzer]_vars

\* a cycle on files that were deleted after an earlier chart render: nothing
\* of the earlier data is left in the report
C13_Witness ==
    /\ cycle.ran
    /\ chart.written
    /\ ~cycle.mfile.exists /\ ~cycle.sfile.exists
    /\ ~cycle.result.raised
    /\ cycle.result.trend = [trend |-> "no_data"]
    /\ cycle.result.roi = ZeroRoi
    /\ analyzer = NewAnalyzer

\* C14: the Convergence ETA field of the report shows "<n> iterations"
\* whenever predict_convergence returned a prediction n, n = 0 included,
\* and "Unknown" only when there is no prediction (or the history is empty).
C14_ConvergenceEta ==
    (cycle.ran /\ ~cycle.result.raised) =>
        LET prediction == cycle.result.iterations_to_convergence
            eta        == cycle.result.report.convergence_eta
        IN  /\ prediction.kind = "int" => eta = [iterations |-> prediction.n]
            /\ eta = [unknown |-> TRUE] =>
                  prediction.kind = "None" \/ cycle.result.improvements = <<>>

(***************************************************************************)
(* main(): the polling loop.                                               *)
(*                                                                         *)
(* now is time.time() in seconds since main() read it for the first time;  *)
(* generate_report() and plot_analysis() take 0, 30, .. MaxSlow * 30        *)
(* seconds, time.sleep(30) that much more than 30.  pc is the statement    *)
(* about to run: "report" (line 359), "check" (line 364), "sleep"          *)
(* (line 370), "final_plot" (line 374), "exit", or "crashed" after an      *)
(* exception other than KeyboardInterrupt left main().                     *)
(***************************************************************************)
PLOT_INTERVAL == 300
SLEEP_SECONDS == 30

Durations == {k * SLEEP_SECONDS : k \in 0..MaxSlow}

PlotDueGe(t, last) == t - last >= PLOT_INTERVAL

\* time.time() - last_plot_time > 300
PlotDue(t, last) == t - last > PLOT_INTERVAL

Init ==
    /\ analyzer = NewAnalyzer
    /\ call = [fn |-> "main"]
    /\ ret = Pending
    /\ cycle = NoCycle
    /\ chart = NoChart
    /\ hour = 7
    /\ state_file \in {Missing, File([iteration |-> 2, total_improvement |-> RInt(3),
                                     successful_optimizations |-> 2])}
    /\ metrics_file \in
          {Missing,
           File([improvement_history |-> <<[improvement |-> RInt(3)], [improvement |-> Zero],
                                           [improvement |-> RInt(2)]>>,
                 optimizations_applied |-> <<[pattern |-> "A", improvement |-> RInt(10)]>>]),
           File([improvement_history |-> <<Restrict([improvement |-> Zero], {})>>])}
    /\ pc = "report"
    /\ now = 0
    /\ last_plot_time = 0       \* line 354
    /\ renders = <<>>
    /\ stdout = "Press Ctrl+C to stop"

InLoop == pc \in {"report", "check", "sleep"}

\* lines 359-361: report = analyzer.generate_report(); print(report).
\* The report's header carries datetime.now(): cycle.at.
Report ==
    /\ pc = "report"
    /\ now <= MaxTime
    /\ \E lapack \in {"raise", "nan"} :
          \E result \in {generate_report(state_file, metrics_file, hour, lapack)},
             d \in Durations :
              /\ now' = now + d
              /\ IF result.raised
                 THEN /\ pc' = "crashed"
                      /\ UNCHANGED <<cycle, stdout>>
                 ELSE /\ pc' = "check"
                      /\ cycle' = [ran |-> TRUE, sfile |-> state_file, mfile |-> metrics_file,
                                   hour |-> hour, at |-> now + d, result |-> result]
                      /\ stdout' = "report"
    /\ UNCHANGED <<analyzer, state_file, metrics_file, hour, call, ret, chart,
                   last_plot_time, renders>>

\* line 364, condition false
SkipPlot ==
    /\ pc = "check"
    /\ ~PlotDue(now, last_plot_time)
    /\ pc' = "sleep"
    /\ UNCHANGED <<analyzer, state_file, metrics_file, hour, call, ret, cycle, chart,
                   now, last_plot_time, renders, stdout>>

\* lines 364-367, condition true: plot_analysis(); last_plot_time = time.time()
PeriodicPlot ==
    /\ pc = "check"
    /\ PlotDue(now, last_plot_time)
    /\ \E plotted \in {plot_analysis(state_file, metrics_file)}, d \in Durations :
              /\ chart' = Saved(chart, plotted)
              /\ now' = now + d
              /\ renders' = Append(renders, [kind |-> "periodic", begun |-> now,
                                             done |-> now + d, report_at |-> cycle.at])
              /\ IF plotted.raised
                 THEN pc' = "crashed" /\ UNCHANGED <<last_plot_time, stdout>>
                 ELSE /\ pc' = "sleep"
                      /\ last_plot_time' = now + d
                      /\ stdout' = "Analysis plots saved to kaizen_analysis.png"
    /\ UNCHANGED <<analyzer, state_file, metrics_file, hour, call, ret, cycle>>

\* line 370: time.sleep(30)
Sleep ==
    /\ pc = "sleep"
    /\ now <= MaxTime
    /\ \E d \in Durations : now' = now + SLEEP_SECONDS + d
    /\ pc' = "report"
    /\ UNCHANGED <<analyzer, state_file, metrics_file, hour, call, ret, cycle, chart,
                   last_plot_time, renders, stdout>>

\* lines 372-373: Ctrl+C while the loop is running
KeyboardInterrupt ==
    /\ InLoop
    /\ pc' = "final_plot"
    /\ stdout' = "Analysis stopped. Generating final report..."
    /\ UNCHANGED <<analyzer, state_file, metrics_file, hour, call, ret, cycle, chart,
                   now, last_plot_time, renders>>

\* lines 374-375: the final plot_analysis()
FinalPlot ==
    /\ pc = "final_plot"
    /\ \E plotted \in {plot_analysis(state_file, metrics_file)}, d \in Durations :
              /\ chart' = Saved(chart, plotted)
              /\ now' = now + d
              /\ renders' = Append(renders, [kind |-> "final", begun |-> now,
                                             done |-> now + d,
                                             report_at |-> IF cycle.ran THEN cycle.at ELSE -1])
              /\ IF plotted.raised
                 THEN pc' = "crashed" /\ UNCHANGED stdout
                 ELSE /\ pc' = "exit"
                      /\ stdout' = "Final analysis saved to kaizen_analysis.png"
    /\ UNCHANGED <<analyzer, state_file, metrics_file, hour, call, ret, cycle,
                   last_plot_time>>

Next ==
    \/ Report
    \/ SkipPlot
    \/ PeriodicPlot
    \/ Sleep
    \/ KeyboardInterrupt
    \/ FinalPlot

Spec == Init /\ [][Next]_vars

(***************************************************************************)
(* Properties of the polling loop (checked under Spec).                    *)
(***************************************************************************)
Periodic == {i \in 1..Len(renders) : renders[i].kind = "periodic"}

\* when the previous periodic render completed, or startup (0) for the first
PreviousStamp(i) ==
    IF \E j \in Periodic : j < i
    THEN renders[CHOOSE j \in Periodic : j < i /\ \A k \in Periodic : k < i => k <= j].done
    ELSE 0

\* C10: a periodic chart render happens in a cycle only if more than 300
\* seconds have passed since the previous periodic render completed (since
\* startup for the first): none happens in the first 300 seconds, any two
\* are more than 300 seconds apart; and every cycle renders a report.
C10_PeriodicRenderGate ==
    /\ \A i \in Periodic :
          /\ renders[i].begun - PreviousStamp(i) > 300
          /\ renders[i].begun > 300
          /\ \A j \in Periodic : j < i => renders[i].begun - renders[j].done > 300
          \* the cycle's report was printed right before the render
          /\ renders[i].report_at = renders[i].begun
    \* past line 361 the report on screen is this cycle's
    /\ pc = "check" => cycle.ran /\ cycle.at = now /\ stdout = "report"
    /\ pc = "sleep" =>
          /\ cycle.ran
          /\ \/ cycle.at = now /\ stdout = "report"
             \/ /\ renders # <<>>
                /\ renders[Len(renders)].done = now
                /\ renders[Len(renders)].report_at = renders[Len(renders)].begun

C10_Witness ==
    /\ Cardinality(Periodic) >= 2
    /\ pc = "sleep"

Final == {i \in 1..Len(renders) : renders[i].kind = "final"}

\* C11: the main loop never terminates on its own (the program leaves it
\* only through the interrupt); after an interrupt inside the loop exactly
\* one final chart render is made, then the program exits, and no report is
\* rendered after the interrupt.
C11_InterruptOnlyExit ==
    \* the loop is left by the interrupt and by nothing else
    /\ pc # "crashed"
    /\ InLoop => Final = {}
    \* interrupted: nothing printed since, the final render still to come
    /\ pc = "final_plot" =>
          /\ Final = {}
          /\ stdout = "Analysis stopped. Generating final report..."
    \* exited: one final render, made last, and no report after it
    /\ pc = "exit" =>
          /\ Cardinality(Final) = 1
          /\ Final = {Len(renders)}
          /\ stdout = "Final analysis saved to kaizen_analysis.png"

====
